---- MODULE Spec2Model ----
(***************************************************************************)
(* Model of src/api.py: an HTTP gateway in front of a retrieval engine.    *)
(* State: the process-wide dictionary workspace_apps, the requests whose   *)
(* handler is suspended at `await request.body()`, and the response of the *)
(* handler step taken last.  The engine, the backend and the clients are   *)
(* the environment: their outcomes are inputs of the actions.              *)
(*                                                                         *)
(* HMAC-SHA256 is modelled as a free constructor over (key, message): two  *)
(* digests are equal exactly when key and message are equal (no            *)
(* collisions).                                                            *)
(***************************************************************************)
EXTENDS Bags, FiniteSets, Integers, Sequences, TLC

VARIABLES workspace_apps, next_handle, constructed, resolutions, inflight, out

vars == <<workspace_apps, next_handle, constructed, resolutions, inflight, out>>

\* Largest number of requests whose handler is suspended at an await at once.
MaxInFlight == 2

Workspaces == {"w1", "w2"}

\* os.getenv("HMAC_SECRET")
HMAC_SECRET == "secret"

DataEndpoints == {"data", "train", "qna", "list", "delete"}

\* Endpoints whose parameters the framework can find invalid: a body parsed
\* into a BaseModel, or required query parameters.  /api/data/list takes only
\* the path parameter, which every request routed to it carries.
ValidatedEndpoints == {"workspace", "data", "train", "qna", "delete"}

\* ---------------------------------------------------------------------------
\* Requests
\* ---------------------------------------------------------------------------

Bool2Str(b) == IF b THEN "valid" ELSE "malformed"

\* The parsed parameters of a request to a data endpoint.  file_url and
\* data_type are fields of TrainRequest only.
TrainContents ==
    [ep : {"train"}, w : Workspaces, valid : BOOLEAN,
     file_url : {"", "url"}, data_type : {"", "pdf"}]

OtherContents ==
    { c \in [ep : DataEndpoints \ {"train"}, w : Workspaces, valid : BOOLEAN,
             file_url : {"-"}, data_type : {"-"}] :
        c.valid \/ c.ep \in ValidatedEndpoints }

Contents == TrainContents \cup OtherContents

\* The raw body of the request: the JSON document of a POST, nothing for GET
\* and DELETE (their parameters travel in the URL).
Body(c) ==
    IF c.ep \in {"list", "delete"} THEN << >>
    ELSE <<c.ep, c.w, Bool2Str(c.valid), c.file_url, c.data_type>>

OtherWorkspace(w) == CHOOSE v \in Workspaces : v # w

\* A body different from the one sent: the same document for another
\* workspace, or a non-empty body where the request has none.
OtherBody(c) ==
    IF c.ep \in {"list", "delete"} THEN <<c.ep, c.w>>
    ELSE Body([c EXCEPT !.w = OtherWorkspace(c.w)])

\* hmac.new(key, body, hashlib.sha256).hexdigest()
hmac_hexdigest(key, body) == <<"hmac-sha256", key>> \o body

\* request.headers.get("X-Signature") when the header is absent / empty
NoHeader == <<"None">>
EmptyHeader == <<"">>

Signatures(c) ==
    { NoHeader, EmptyHeader,
      hmac_hexdigest(HMAC_SECRET, Body(c)),
      hmac_hexdigest(HMAC_SECRET, OtherBody(c)) }

Requests == UNION { { [content |-> c, sig |-> s] : s \in Signatures(c) } : c \in Contents }

\* ---------------------------------------------------------------------------
\* Environment outcomes
\* ---------------------------------------------------------------------------

Exception(type, msg) == [type |-> type, msg |-> msg]

NoException == Exception("", "")

\* str(e)
str(e) == e.msg

Return(v) == [kind |-> "return", value |-> v, exc |-> NoException]
Raise(e) == [kind |-> "raise", value |-> << >>, exc |-> e]

\* EmbedChainApp.from_config(config_path="config.yaml")
CtorOutcomes == { Return(<<"app">>), Raise(Exception("Exception", "config error")) }

\* app_instance.search(...)
SearchOutcomes ==
    { Return(<< >>), Return(<<"doc">>), Raise(Exception("Exception", "search failed")) }

\* app_instance.add(...)
AddOutcomes ==
    { Return(<<"None">>),
      Raise(Exception("ValueError", "invalid value")),
      Raise(Exception("Exception", "add failed")) }

\* app_instance.list_data(...)
ListOutcomes == { Return(<<"item">>), Raise(Exception("Exception", "list failed")) }

\* app_instance.delete_data(...)
DeleteOutcomes == { Return(<<"None">>), Raise(Exception("Exception", "delete failed")) }

\* supabase.table("workspaces").insert(...).execute()
InsertOutcomes == { Return(<<"row">>), Raise(Exception("Exception", "insert failed")) }

\* ---------------------------------------------------------------------------
\* Responses
\* ---------------------------------------------------------------------------

\* What the step taken last answered: the request, the status and detail of the
\* response, its payload, the calls made on the engine or the backend with what
\* each did, the engine or backend exception raised (if any), and
\* workspace_apps as it was when the step began.
Response(req, o) ==
    [req |-> req, status |-> o.status, detail |-> o.detail, result |-> o.result,
     calls |-> o.calls, exc |-> o.exc, before |-> workspace_apps]

\* raise HTTPException(status_code=status, detail=detail)
HTTPException(status, detail) ==
    [calls |-> << >>, status |-> status, detail |-> detail, result |-> << >>,
     exc |-> NoException]

\* An exception no handler catches: the framework answers 500 with the fixed
\* text "Internal Server Error".
Uncaught(calls, e) ==
    [calls |-> calls, status |-> 500, detail |-> "Internal Server Error", result |-> << >>,
     exc |-> e]

\* The framework's answer to parameters that fail validation.
RequestValidationError == HTTPException(422, "validation error")

Respond(req, o) == out' = Response(req, o)

\* ---------------------------------------------------------------------------
\* Signature verifier
\* ---------------------------------------------------------------------------

\* Variant of compare_digest: compares the lengths only.
compare_digest_length(a, b) == Len(a) = Len(b)

\* hmac.compare_digest(a, b)
compare_digest(a, b) == a = b

\* verify_hmac_signature: "missing" and "invalid" are its two HTTPException(403),
\* "ok" is a normal return.  The header test precedes `await request.body()`,
\* the comparison follows it.
verify_hmac_signature(sig, body, secret_key) ==
    IF sig = NoHeader \/ sig = EmptyHeader THEN "missing"
    ELSE IF ~compare_digest(hmac_hexdigest(secret_key, body), sig) THEN "invalid"
    ELSE "ok"

Forbidden(v) ==
    IF v = "missing" THEN HTTPException(403, "Signature missing")
    ELSE HTTPException(403, "Invalid signature")

\* ---------------------------------------------------------------------------
\* Instance cache
\* ---------------------------------------------------------------------------

\* Variant of get_workspace_app: one handle, the first constructed, is stored
\* for every identifier.
get_workspace_app_shared(workspace_id, ctor) ==
    IF workspace_apps[workspace_id] = 0
    THEN IF ctor.kind = "raise"
         THEN [raised |-> TRUE, exc |-> ctor.exc, apps |-> workspace_apps,
               handle |-> 0, built |-> 0]
         ELSE [raised |-> FALSE, exc |-> ctor.exc,
               apps |-> [workspace_apps EXCEPT ![workspace_id] = 1],
               handle |-> 1, built |-> IF next_handle = 0 THEN 1 ELSE 0]
    ELSE [raised |-> FALSE, exc |-> ctor.exc, apps |-> workspace_apps,
          handle |-> workspace_apps[workspace_id], built |-> 0]

\* Variant of get_workspace_app: no membership test, a handle is constructed
\* and stored at every call.
get_workspace_app_nocheck(workspace_id, ctor) ==
    IF ctor.kind = "raise"
    THEN [raised |-> TRUE, exc |-> ctor.exc, apps |-> workspace_apps,
          handle |-> 0, built |-> 0]
    ELSE [raised |-> FALSE, exc |-> ctor.exc,
          apps |-> [workspace_apps EXCEPT ![workspace_id] = next_handle + 1],
          handle |-> next_handle + 1, built |-> 1]

\* workspace_apps maps an identifier to a handle; 0 stands for "not a key".
\* Handles are numbered in the order of their construction.
get_workspace_app(workspace_id, ctor) ==
    IF workspace_apps[workspace_id] = 0
    THEN IF ctor.kind = "raise"
         THEN [raised |-> TRUE, exc |-> ctor.exc, apps |-> workspace_apps,
               handle |-> 0, built |-> 0]
         ELSE [raised |-> FALSE, exc |-> ctor.exc,
               apps |-> [workspace_apps EXCEPT ![workspace_id] = next_handle + 1],
               handle |-> next_handle + 1, built |-> 1]
    ELSE [raised |-> FALSE, exc |-> ctor.exc, apps |-> workspace_apps,
          handle |-> workspace_apps[workspace_id], built |-> 0]

\* The effect of one call of get_workspace_app on the state.
Resolved(workspace_id, g) ==
    /\ workspace_apps' = g.apps
    /\ next_handle' = next_handle + g.built
    /\ constructed' = [constructed EXCEPT ![workspace_id] = @ + g.built]
    /\ resolutions' = IF g.raised THEN resolutions
                      ELSE resolutions \cup {<<workspace_id, g.handle>>}

CacheUnchanged == UNCHANGED <<workspace_apps, next_handle, constructed, resolutions>>

\* ---------------------------------------------------------------------------
\* Handlers: the part inside try/except, given the handle and engine outcomes
\* ---------------------------------------------------------------------------

\* Variant of metadata: the filter names a fixed workspace.
metadata_fixed(workspace_id) == [workspace_id |-> "w1"]

\* metadata={"workspace_id": workspace_id}
metadata(workspace_id) == [workspace_id |-> workspace_id]

\* One call on an engine handle and what it did.
Call(app_instance, cap, arg, workspace_id, outcome) ==
    [handle |-> app_instance, cap |-> cap, arg |-> arg,
     metadata |-> metadata(workspace_id), outcome |-> outcome]

Ok(calls, result) ==
    [calls |-> calls, status |-> 200, detail |-> "", result |-> result, exc |-> NoException]

\* Variant of ServerError: the detail is a fixed text.
ServerError_generic(calls, e) ==
    [calls |-> calls, status |-> 500, detail |-> "Internal Server Error",
     result |-> << >>, exc |-> e]

\* except Exception as e: raise HTTPException(status_code=500, detail=str(e))
ServerError(calls, e) ==
    [calls |-> calls, status |-> 500, detail |-> str(e), result |-> << >>, exc |-> e]

\* Variant of get_data_try: an empty first answer is returned as it is.
get_data_try_noretry(app_instance, c, s1, s2) ==
    LET search(s) == Call(app_instance, "search", "question", c.w, s)
    IN  IF s1.kind = "raise" THEN ServerError(<<search(s1)>>, s1.exc)
        ELSE Ok(<<search(s1)>>, s1.value)

\* get_data, lines 124-130.  s1 and s2 are what the first and the second
\* search do when called.
get_data_try(app_instance, c, s1, s2) ==
    LET search(s) == Call(app_instance, "search", "question", c.w, s)
    IN  IF s1.kind = "raise" THEN ServerError(<<search(s1)>>, s1.exc)
        ELSE IF Len(s1.value) = 0
             THEN IF s2.kind = "raise"
                  THEN ServerError(<<search(s1), search(s2)>>, s2.exc)
                  ELSE Ok(<<search(s1), search(s2)>>, s2.value)
             ELSE Ok(<<search(s1)>>, s1.value)

\* train, lines 142-149.
train_try(app_instance, c, a) ==
    LET add == Call(app_instance, "add", c.file_url, c.w, a)
    IN  IF c.file_url = "" \/ c.data_type = ""
        THEN HTTPException(400, "Both 'file_url' and 'data_type' are required")
        ELSE IF a.kind = "raise" THEN ServerError(<<add>>, a.exc)
        ELSE Ok(<<add>>, <<"Training data added successfully">>)

\* Variant of train_qna_try: no except clause for ValueError.
train_qna_try_generic(app_instance, c, a) ==
    LET add == Call(app_instance, "add", "question-answer", c.w, a)
    IN  IF a.kind = "raise" THEN ServerError(<<add>>, a.exc)
        ELSE Ok(<<add>>, <<"Q&A pair added successfully">>)

\* train_qna, lines 162-168.
train_qna_try(app_instance, c, a) ==
    LET add == Call(app_instance, "add", "question-answer", c.w, a)
    IN  IF a.kind = "raise"
        THEN IF a.exc.type = "ValueError"
             THEN [calls |-> <<add>>, status |-> 422, detail |-> str(a.exc),
                   result |-> << >>, exc |-> a.exc]
             ELSE ServerError(<<add>>, a.exc)
        ELSE Ok(<<add>>, <<"Q&A pair added successfully">>)

\* list_data, lines 177-181.
list_data_try(app_instance, c, l) ==
    LET list == Call(app_instance, "list_data", "", c.w, l)
    IN  IF l.kind = "raise" THEN ServerError(<<list>>, l.exc)
        ELSE Ok(<<list>>, l.value)

\* delete_data, lines 191-195.
delete_data_try(app_instance, c, d) ==
    LET delete == Call(app_instance, "delete_data", "file_name", c.w, d)
    IN  IF d.kind = "raise" THEN ServerError(<<delete>>, d.exc)
        ELSE Ok(<<delete>>, <<"Data file_name deleted successfully">>)

\* ---------------------------------------------------------------------------
\* Actions
\* ---------------------------------------------------------------------------

NoRequest ==
    [content |-> [ep |-> "none", w |-> "-", valid |-> TRUE, file_url |-> "-", data_type |-> "-"],
     sig |-> NoHeader]

Init ==
    /\ workspace_apps = [w \in Workspaces |-> 0]
    /\ next_handle = 0
    /\ constructed = [w \in Workspaces |-> 0]
    /\ resolutions = {}
    /\ inflight = EmptyBag
    /\ out = [req |-> NoRequest, status |-> 0, detail |-> "", result |-> << >>,
              calls |-> << >>, exc |-> NoException,
              before |-> [w \in Workspaces |-> 0]]

\* Variant of handler_entry: the required fields of an ingestion request are
\* tested before the signature.
handler_entry_fields_first(req) ==
    IF ~req.content.valid THEN [suspend |-> FALSE, resp |-> RequestValidationError]
    ELSE IF req.content.ep = "train" /\ (req.content.file_url = "" \/ req.content.data_type = "")
         THEN [suspend |-> FALSE,
               resp |-> HTTPException(400, "Both 'file_url' and 'data_type' are required")]
    ELSE IF verify_hmac_signature(req.sig, Body(req.content), HMAC_SECRET) = "missing"
         THEN [suspend |-> FALSE, resp |-> Forbidden("missing")]
         ELSE [suspend |-> TRUE, resp |-> Ok(<< >>, << >>)]

\* What a request to a data endpoint meets before its handler first awaits:
\* the framework validates the parameters (422 on failure, the handler is not
\* entered), then the handler enters verify_hmac_signature, which raises 403
\* on a missing header and otherwise awaits the body.
handler_entry(req) ==
    IF ~req.content.valid THEN [suspend |-> FALSE, resp |-> RequestValidationError]
    ELSE IF verify_hmac_signature(req.sig, Body(req.content), HMAC_SECRET) = "missing"
         THEN [suspend |-> FALSE, resp |-> Forbidden("missing")]
         ELSE [suspend |-> TRUE, resp |-> Ok(<< >>, << >>)]

RequestArrives(req) ==
    LET e == handler_entry(req)
    IN  IF e.suspend
        THEN /\ BagCardinality(inflight) < MaxInFlight
             /\ inflight' = inflight (+) SetToBag({req})
             /\ UNCHANGED <<workspace_apps, next_handle, constructed, resolutions, out>>
        ELSE /\ Respond(req, e.resp)
             /\ UNCHANGED <<workspace_apps, next_handle, constructed, resolutions, inflight>>

\* The handler of req resumes after `await request.body()` and runs to its end.
Resumes(req, ep) ==
    /\ BagIn(req, inflight)
    /\ req.content.ep = ep
    /\ inflight' = inflight (-) SetToBag({req})

Verified(req) == verify_hmac_signature(req.sig, Body(req.content), HMAC_SECRET)

get_data(req) ==
    /\ Resumes(req, "data")
    /\ IF Verified(req) # "ok"
       THEN Respond(req, Forbidden(Verified(req))) /\ CacheUnchanged
       ELSE \E ctor \in CtorOutcomes, s1 \in SearchOutcomes, s2 \in SearchOutcomes :
              LET g == get_workspace_app(req.content.w, ctor)
              IN  /\ Resolved(req.content.w, g)
                  /\ Respond(req, IF g.raised THEN Uncaught(<< >>, g.exc)
                                  ELSE get_data_try(g.handle, req.content, s1, s2))

train(req) ==
    /\ Resumes(req, "train")
    /\ IF Verified(req) # "ok"
       THEN Respond(req, Forbidden(Verified(req))) /\ CacheUnchanged
       ELSE \E ctor \in CtorOutcomes, a \in AddOutcomes :
              LET g == get_workspace_app(req.content.w, ctor)
              IN  /\ Resolved(req.content.w, g)
                  /\ Respond(req, IF g.raised THEN Uncaught(<< >>, g.exc)
                                  ELSE train_try(g.handle, req.content, a))

train_qna(req) ==
    /\ Resumes(req, "qna")
    /\ IF Verified(req) # "ok"
       THEN Respond(req, Forbidden(Verified(req))) /\ CacheUnchanged
       ELSE \E ctor \in CtorOutcomes, a \in AddOutcomes :
              LET g == get_workspace_app(req.content.w, ctor)
              IN  /\ Resolved(req.content.w, g)
                  /\ Respond(req, IF g.raised THEN Uncaught(<< >>, g.exc)
                                  ELSE train_qna_try(g.handle, req.content, a))

\* Variant of list_data: the handle is resolved before the signature is compared.
list_data_resolve_first(req) ==
    /\ Resumes(req, "list")
    /\ \E ctor \in CtorOutcomes, l \in ListOutcomes :
          LET g == get_workspace_app(req.content.w, ctor)
          IN  /\ Resolved(req.content.w, g)
              /\ Respond(req, IF g.raised THEN Uncaught(<< >>, g.exc)
                              ELSE IF Verified(req) # "ok" THEN Forbidden(Verified(req))
                              ELSE list_data_try(g.handle, req.content, l))

list_data(req) ==
    /\ Resumes(req, "list")
    /\ IF Verified(req) # "ok"
       THEN Respond(req, Forbidden(Verified(req))) /\ CacheUnchanged
       ELSE \E ctor \in CtorOutcomes, l \in ListOutcomes :
              LET g == get_workspace_app(req.content.w, ctor)
              IN  /\ Resolved(req.content.w, g)
                  /\ Respond(req, IF g.raised THEN Uncaught(<< >>, g.exc)
                                  ELSE list_data_try(g.handle, req.content, l))

delete_data(req) ==
    /\ Resumes(req, "delete")
    /\ IF Verified(req) # "ok"
       THEN Respond(req, Forbidden(Verified(req))) /\ CacheUnchanged
       ELSE \E ctor \in CtorOutcomes, d \in DeleteOutcomes :
              LET g == get_workspace_app(req.content.w, ctor)
              IN  /\ Resolved(req.content.w, g)
                  /\ Respond(req, IF g.raised THEN Uncaught(<< >>, g.exc)
                                  ELSE delete_data_try(g.handle, req.content, d))

\* generate_workspace_id draws from the same identifiers the clients use: the
\* code checks no collision.
GeneratedIds == Workspaces

WorkspaceRequest(valid) ==
    [content |-> [ep |-> "workspace", w |-> "-", valid |-> valid,
                  file_url |-> "-", data_type |-> "-"],
     sig |-> NoHeader]

\* create_workspace has no await and no try: it runs in one step, and an
\* exception of the backend leaves it uncaught.
create_workspace(valid, workspace_id, ins) ==
    LET insert == [handle |-> 0, cap |-> "insert", arg |-> "workspace_name",
                   metadata |-> [workspace_id |-> workspace_id], outcome |-> ins]
    IN  /\ Respond(WorkspaceRequest(valid),
                   IF ~valid THEN RequestValidationError
                   ELSE IF ins.kind = "raise" THEN Uncaught(<<insert>>, ins.exc)
                   ELSE Ok(<<insert>>, <<workspace_id, "workspace_name">>))
        /\ UNCHANGED <<workspace_apps, next_handle, constructed, resolutions, inflight>>

\* No handler is suspended: the request being admitted is served alone.
Serial == inflight = EmptyBag

\* The gateway serving one request at a time, over every request in Requests.
Next ==
    \/ \E req \in Requests : Serial /\ RequestArrives(req)
    \/ \E req \in Requests : get_data(req)
    \/ \E req \in Requests : train(req)
    \/ \E req \in Requests : train_qna(req)
    \/ \E req \in Requests : list_data(req)
    \/ \E req \in Requests : delete_data(req)
    \/ \E valid \in BOOLEAN, workspace_id \in GeneratedIds, ins \in InsertOutcomes :
          Serial /\ create_workspace(valid, workspace_id, ins)

Spec == Init /\ [][Next]_vars

\* The requests that reach get_workspace_app: well-formed and correctly signed.
ResolvingRequests ==
    { req \in Requests : req.content.valid /\ Verified(req) = "ok" }

\* The gateway with up to MaxInFlight handlers suspended at their await at
\* once, resumed in any order, over the requests that reach the cache.
NextConcurrent ==
    \/ \E req \in ResolvingRequests : RequestArrives(req)
    \/ \E req \in ResolvingRequests : get_data(req)
    \/ \E req \in ResolvingRequests : train(req)
    \/ \E req \in ResolvingRequests : train_qna(req)
    \/ \E req \in ResolvingRequests : list_data(req)
    \/ \E req \in ResolvingRequests : delete_data(req)
    \/ \E valid \in BOOLEAN, workspace_id \in GeneratedIds, ins \in InsertOutcomes :
          create_workspace(valid, workspace_id, ins)

SpecConcurrent == Init /\ [][NextConcurrent]_vars

\* ---------------------------------------------------------------------------
\* Properties
\* ---------------------------------------------------------------------------

\* The response in out answers a request to one of the five data endpoints.
DataResponse == out.req.content.ep \in DataEndpoints

Tampered(req) == req.sig = hmac_hexdigest(HMAC_SECRET, OtherBody(req.content))

WellSigned(req) == req.sig = hmac_hexdigest(HMAC_SECRET, Body(req.content))

\* C1: every resolution of an identifier returned the handle the cache maps it
\* to now (so any two resolutions of it returned the same handle, and an entry
\* is never re-mapped or removed), and resolutions of two different
\* identifiers returned different handles.
C1_SameHandlePerWorkspace ==
    \A p \in resolutions :
        /\ workspace_apps[p[1]] = p[2]
        /\ \A q \in resolutions : (p[1] = q[1]) <=> (p[2] = q[2])

\* Both identifiers are mapped and the request answered last was resolved to
\* a handle that was in the cache before it.
C1_Witness ==
    /\ \A w \in Workspaces : workspace_apps[w] # 0
    /\ DataResponse /\ out.calls # << >>
    /\ out.before[out.req.content.w] # 0
    /\ out.calls[1].handle = out.before[out.req.content.w]

\* C2 as stated: a request to a data endpoint without X-Signature is answered
\* 403 whatever its body or parameters are.
C2_Original ==
    (DataResponse /\ out.req.sig = NoHeader) => out.status = 403

\* C2 as amended: a request to a data endpoint without X-Signature whose
\* parameters pass the framework's validation is answered 403, whatever the
\* values of its fields (an empty file_url or data_type included).
C2_MissingSignature403 ==
    (DataResponse /\ out.req.sig = NoHeader /\ out.req.content.valid) => out.status = 403

\* An unsigned ingestion request with an empty file_url was answered 403.
C2_Witness ==
    /\ out.req.content.ep = "train" /\ out.req.content.valid
    /\ out.req.content.file_url = "" /\ out.req.sig = NoHeader
    /\ out.status = 403 /\ out.detail = "Signature missing"

\* C3 as stated: a request signed over another body is answered 403, a
\* request signed over its own body is never answered 403.
C3_Original ==
    DataResponse =>
        /\ Tampered(out.req) => out.status = 403
        /\ WellSigned(out.req) => out.status # 403

\* C3 as amended: the same, for requests whose parameters pass the framework's
\* validation (the others are answered 422 before the handler is entered).
C3_TamperDetection ==
    (DataResponse /\ out.req.content.valid) =>
        /\ Tampered(out.req) => (out.status = 403 /\ out.detail = "Invalid signature")
        /\ WellSigned(out.req) => out.status \in {200, 400, 422, 500}

\* A request signed over the body of the other workspace was answered 403.
C3_Witness ==
    /\ out.req.content.ep = "data" /\ out.req.content.valid
    /\ Tampered(out.req) /\ out.status = 403

\* C4 as stated: a 400 of the ingestion handler leaves workspace_apps as it was
\* and no engine call has been made.
C4_Claim ==
    (out.req.content.ep = "train" /\ out.status = 400) =>
        (workspace_apps = out.before /\ out.calls = << >>)

\* C5: a request rejected with 403 left workspace_apps unchanged and made no
\* engine call.
C5_ForbiddenTouchesNothing ==
    (DataResponse /\ out.status = 403) =>
        (workspace_apps = out.before /\ out.calls = << >> /\ out.exc = NoException)

\* A badly signed request for an identifier not yet in the cache was rejected.
C5_Witness ==
    /\ DataResponse /\ out.status = 403 /\ out.detail = "Invalid signature"
    /\ out.before[out.req.content.w] = 0

SameArguments(c1, c2) ==
    /\ c1.handle = c2.handle /\ c1.cap = c2.cap
    /\ c1.arg = c2.arg /\ c1.metadata = c2.metadata

\* C6: the query handler makes a second, identical search exactly when the
\* first returned nothing, never a third, and answers what the last search
\* returned (200 with the empty result when both returned nothing).
C6_RetryOnceOnEmpty ==
    (out.req.content.ep = "data" /\ out.calls # << >>) =>
        /\ Len(out.calls) <= 2
        /\ (Len(out.calls) = 2) <=> (out.calls[1].outcome = Return(<< >>))
        /\ Len(out.calls) = 2 => SameArguments(out.calls[1], out.calls[2])
        /\ out.calls[Len(out.calls)].outcome.kind = "return" =>
              (out.status = 200 /\ out.result = out.calls[Len(out.calls)].outcome.value)

\* The first search returned nothing, the second a document, which was answered.
C6_Witness ==
    /\ out.req.content.ep = "data" /\ Len(out.calls) = 2
    /\ out.calls[1].outcome = Return(<< >>)
    /\ out.calls[2].outcome = Return(<<"doc">>)
    /\ out.status = 200 /\ out.result = <<"doc">>

\* C7: when the Q&A handler calls add, it calls it once; a ValueError is
\* answered 422 with its message, another exception 500, a return 200.
C7_QnaErrorMapping ==
    (out.req.content.ep = "qna" /\ out.calls # << >>) =>
        /\ Len(out.calls) = 1
        /\ out.calls[1].cap = "add"
        /\ LET o == out.calls[1].outcome
           IN  /\ (o.kind = "raise" /\ o.exc.type = "ValueError") =>
                      (out.status = 422 /\ out.detail = str(o.exc))
               /\ (o.kind = "raise" /\ o.exc.type # "ValueError") => out.status = 500
               /\ o.kind = "return" =>
                      (out.status = 200 /\ out.result = <<"Q&A pair added successfully">>)

\* add raised a ValueError and the answer was 422 with its message.
C7_Witness ==
    /\ out.req.content.ep = "qna" /\ Len(out.calls) = 1
    /\ out.calls[1].outcome.exc.type = "ValueError"
    /\ out.status = 422 /\ out.detail = "invalid value"

\* An engine or backend exception was raised while serving the request, and it
\* is not the ValueError of Q&A ingestion.
EngineFailure ==
    /\ out.exc # NoException
    /\ ~(out.req.content.ep = "qna" /\ out.exc.type = "ValueError")

\* The exception was raised by the last call made, and no call follows a
\* call that raised.
NoRetry ==
    \A i \in 1..Len(out.calls) : out.calls[i].outcome.kind = "raise" => i = Len(out.calls)

\* The exception came from a capability call of a data handler.
CapabilityFailure ==
    /\ DataResponse /\ out.calls # << >>
    /\ out.calls[Len(out.calls)].outcome.kind = "raise"

\* C8 as stated: every such exception is answered 500 with the exception's
\* string as detail, without retry.
C8_Original ==
    EngineFailure => (out.status = 500 /\ out.detail = str(out.exc) /\ NoRetry)

\* C8 as amended: every such exception is answered 500 without retry; the
\* detail is the exception's string when a capability call of a data handler
\* raised it, and the framework's fixed text when the construction of the
\* handle or the backend insert raised it (no handler catches those).
C8_EngineFailure500 ==
    EngineFailure =>
        /\ out.status = 500 /\ NoRetry
        /\ out.detail = IF CapabilityFailure THEN str(out.exc) ELSE "Internal Server Error"

\* list_data raised and the answer was 500 with the exception's string.
C8_Witness ==
    /\ out.req.content.ep = "list" /\ CapabilityFailure
    /\ out.status = 500 /\ out.detail = "list failed"

\* C9: at most one handle is ever constructed for an identifier, and all
\* resolutions of an identifier return one handle.
C9_OneHandleConstructed ==
    \A w \in Workspaces :
        /\ constructed[w] <= 1
        /\ Cardinality({ p \in resolutions : p[1] = w }) <= 1

\* A request has just constructed the handle of an identifier while another
\* request for the same identifier, admitted before, is still suspended.
C9_Witness ==
    \E w \in Workspaces :
        /\ DataResponse /\ out.req.content.w = w
        /\ out.before[w] = 0 /\ workspace_apps[w] # 0 /\ constructed[w] = 1
        /\ \E req \in BagToSet(inflight) : req.content.w = w

Capability(ep) ==
    CASE ep = "data" -> "search"
      [] ep = "train" -> "add"
      [] ep = "qna" -> "add"
      [] ep = "list" -> "list_data"
      [] ep = "delete" -> "delete_data"

\* C10: every engine call of a data handler is made on the handle the cache
\* maps to the request's identifier, with that identifier as metadata filter,
\* and is a call of the handler's own capability (add with a question/answer
\* pair for Q&A ingestion, add with the file_url for ingestion).
C10_WorkspaceRouting ==
    DataResponse =>
        \A i \in 1..Len(out.calls) :
            /\ out.calls[i].handle = workspace_apps[out.req.content.w]
            /\ out.calls[i].handle # 0
            /\ out.calls[i].metadata = [workspace_id |-> out.req.content.w]
            /\ out.calls[i].cap = Capability(out.req.content.ep)
            /\ out.req.content.ep = "qna" => out.calls[i].arg = "question-answer"
            /\ out.req.content.ep = "train" => out.calls[i].arg = out.req.content.file_url

\* Both identifiers are mapped and a delete was routed to the second handle
\* constructed.
C10_Witness ==
    /\ \A w \in Workspaces : workspace_apps[w] # 0
    /\ out.req.content.ep = "delete" /\ Len(out.calls) = 1
    /\ out.calls[1].handle = 2

====
